---- MODULE Spec2Model ----
(***************************************************************************)
(* Stock control: the reports screen (period filter, aggregation,          *)
(* consumption projection) and the storage layer that records movements.   *)
(*                                                                         *)
(* Identifiers (UUID strings in the program) are opaque naturals.          *)
(* Timestamps are integers counted in ticks, TicksPerDay ticks to a day;   *)
(* a calendar day is TicksPerDay ticks (no daylight-saving shift).         *)
(* Prices are exact decimals with two places, held in cents.               *)
(* A rational number is a record [num, den] with den > 0.                  *)
(***************************************************************************)
EXTENDS Integers, Sequences, FiniteSets, TLC

\* ------------------------------------------------------------------ bounds
TicksPerDay == 2          \* resolution of the clock
Now0 == 200               \* clock value when the screen is constructed
MaxTicks == 1             \* how far the clock advances
MaxSelected == 2          \* how many products the filter modal selects
MaxAggMovements == 2      \* movements of a small aggregation data set
MaxWide == 11             \* products of a wide aggregation data set
MaxFilterMovements == 2   \* movements of a period-filter data set
MaxConsMovements == 2     \* exits of a consumption data set
MaxStoreMovements == 2    \* movements recorded in the store
InitialStock == 1         \* quantity of the product the store starts with
MaxImportIds == 6         \* ids generated by the imports of a run

\* ------------------------------------------------------- program constants
TopN == 10

VARIABLES
  store,               \* storage: [categories, products, movements]
  products,            \* ReportsScreen state
  categories,
  movements,
  tab,
  period,
  selectedProductIds,
  filtered,            \* the memoised filtered movement list
  clock,               \* wall clock, read by new Date()
  backend,             \* "local" (AsyncStorage) or "api" (Express + database)
  ops,                 \* the storage calls in flight, one per client
  nextId,              \* stands for Crypto.randomUUID()
  recorded,            \* history: the movements addMovement has returned
  reader,              \* the three reads of the focus effect in flight
  loadSeen,            \* history: the store states since the reads began
  loadedFrom,          \* history: loadSeen when the reads were committed
  form                 \* per client, the state of its add-movement,
                       \* categories and backup screens

screenVars == <<products, categories, movements, tab, period,
                selectedProductIds, filtered>>
storeVars == <<backend, ops, nextId, recorded, reader, loadSeen, loadedFrom,
               form>>
vars == <<store, screenVars, clock, storeVars>>

ReportTab == {"entries", "exits", "general", "consumption"}
Period == {"7d", "30d", "90d", "all"}

\* ------------------------------------------------------------------ records
Product(id, cat, qty, minStock, price) ==
  [id |-> id, categoryId |-> cat, quantity |-> qty, minStock |-> minStock,
   price |-> price]

Movement(id, pid, type, qty, at) ==
  [id |-> id, productId |-> pid, type |-> type, quantity |-> qty,
   createdAt |-> at]

MovementType == {"entry", "exit"}
TwoCategories == <<[id |-> 1], [id |-> 2]>>

\* --------------------------------------------------------------- sequences
RECURSIVE SumSeq(_)
SumSeq(s) == IF s = <<>> THEN 0 ELSE Head(s) + SumSeq(Tail(s))

Range(s) == {s[i] : i \in DOMAIN s}

MapQty(ms) == [i \in DOMAIN ms |-> ms[i].quantity]

\* Array.prototype.find: the first element with the id, if any.
HasProduct(prods, pid) == \E i \in DOMAIN prods : prods[i].id = pid
FindProduct(prods, pid) ==
  prods[CHOOSE i \in DOMAIN prods :
          /\ prods[i].id = pid
          /\ \A j \in DOMAIN prods : prods[j].id = pid => i <= j]

\* Array.prototype.sort((a, b) => key(b) - key(a)) is a stable sort in
\* descending order of the key: k[i] is the key of s[i].
\* Mutant: rows with equal keys come out in reverse order.
SortDescByUnstable(s, k) ==
  LET pos(i) == 1 + Cardinality({j \in DOMAIN s : k[j] > k[i] \/ (k[j] = k[i] /\ j > i)})
  IN  [p \in DOMAIN s |-> s[CHOOSE i \in DOMAIN s : pos(i) = p]]

SortDescBy(s, k) ==
  LET pos(i) == 1 + Cardinality({j \in DOMAIN s :
                                   k[j] > k[i] \/ (k[j] = k[i] /\ j < i)})
  IN  [p \in DOMAIN s |-> s[CHOOSE i \in DOMAIN s : pos(i) = p]]

\* Mutant: one row fewer is kept.
SliceOneLess(s, n) == SubSeq(s, 1, IF Len(s) < n - 1 THEN Len(s) ELSE n - 1)

Slice(s, n) == SubSeq(s, 1, IF Len(s) < n THEN Len(s) ELSE n)

\* ----------------------------------------------------------- period filter
\* Mutant: a period that is none of the three gets the thirty-day window.
PeriodDaysDefault30(per) ==
  IF per = "7d" THEN 7 ELSE IF per = "90d" THEN 90 ELSE 30

\* Mutant: the windows of "30d" and "90d" are exchanged.
PeriodDaysSwapped(per) == IF per = "7d" THEN 7 ELSE IF per = "30d" THEN 90 ELSE 30

\* const days = period === "7d" ? 7 : period === "30d" ? 30 : 90
PeriodDaysOf(per) == IF per = "7d" THEN 7 ELSE IF per = "30d" THEN 30 ELSE 90

\* Mutant: the window is one day longer.
CutoffOneDayMore(per, now) == now - (PeriodDaysOf(per) + 1) * TicksPerDay

\* cutoff = new Date(); cutoff.setDate(cutoff.getDate() - days)
Cutoff(per, now) == now - PeriodDaysOf(per) * TicksPerDay

\* Mutant: a movement created exactly at the cutoff is dropped.
filterByPeriodStrict(ms, per, now) ==
  IF per = "all" THEN ms
  ELSE SelectSeq(ms, LAMBDA m : m.createdAt > Cutoff(per, now))

\* Mutant: "all" is not special and gets the ninety-day window.
filterByPeriodNoAll(ms, per, now) ==
  SelectSeq(ms, LAMBDA m : m.createdAt >= Cutoff(per, now))

filterByPeriod(ms, per, now) ==
  IF per = "all" THEN ms
  ELSE SelectSeq(ms, LAMBDA m : m.createdAt >= Cutoff(per, now))

\* A call of filterByPeriod: the body has no throw statement and returns the
\* filtered list for whatever period it is given.
filterByPeriodCall(ms, per, now) ==
  [threw |-> FALSE, value |-> filterByPeriod(ms, per, now)]

\* Mutant: the selected products are ignored.
FilteredEveryProduct(ms, per, sel, now) == filterByPeriod(ms, per, now)

\* const filtered = useMemo(...)
Filtered(ms, per, sel, now) ==
  LET result == filterByPeriod(ms, per, now)
  IN  IF Cardinality(sel) > 0
        THEN SelectSeq(result, LAMBDA m : m.productId \in sel)
        ELSE result

entries == SelectSeq(filtered, LAMBDA m : m.type = "entry")
exits == SelectSeq(filtered, LAMBDA m : m.type = "exit")

\* ------------------------------------------------------------------ totals
totalEntryQty == SumSeq(MapQty(entries))
totalExitQty == SumSeq(MapQty(exits))

\* Mutant: a movement of a missing product is valued at one cent a unit.
PriceOrOne(prods, pid) ==
  IF HasProduct(prods, pid) THEN FindProduct(prods, pid).price ELSE 1

\* Mutant: the price of the first product, whatever the movement's product.
PriceOfFirstProduct(prods, pid) ==
  IF prods # <<>> THEN prods[1].price ELSE 0

PriceOrZero(prods, pid) ==
  IF HasProduct(prods, pid) THEN FindProduct(prods, pid).price ELSE 0

MovementValue(ms, prods) ==
  SumSeq([i \in DOMAIN ms |-> ms[i].quantity * PriceOrZero(prods, ms[i].productId)])

entryValue == MovementValue(entries, products)
exitValue == MovementValue(exits, products)

\* ----------------------------------------------------------------- ranking
\* Mutant: every movement adds a key of its own.
KeysOfRepeated(ms) == [i \in DOMAIN ms |-> ms[i].productId]

\* The keys of the map, in the order forEach first inserts them.
RECURSIVE KeysOf(_)
KeysOf(ms) ==
  IF ms = <<>> THEN <<>>
  ELSE LET init == KeysOf(SubSeq(ms, 1, Len(ms) - 1))
           pid == ms[Len(ms)].productId
       IN  IF pid \in Range(init) THEN init ELSE Append(init, pid)

\* Mutant: the map keeps the last quantity instead of adding it up.
QtyOfKeyOverwrite(ms, pid) ==
  LET mine == SelectSeq(ms, LAMBDA m : m.productId = pid)
  IN  mine[Len(mine)].quantity

\* map[m.productId] = (map[m.productId] ?? 0) + m.quantity
QtyOfKey(ms, pid) ==
  SumSeq(MapQty(SelectSeq(ms, LAMBDA m : m.productId = pid)))

TopByProduct(ms, prods) ==
  LET keys == KeysOf(ms)
      known == SelectSeq(keys, LAMBDA id : HasProduct(prods, id))
      rows == [i \in DOMAIN known |->
                 [product |-> FindProduct(prods, known[i]),
                  qty |-> QtyOfKey(ms, known[i])]]
  IN  Slice(SortDescBy(rows, [i \in DOMAIN rows |-> rows[i].qty]), TopN)

topEntryByProduct == TopByProduct(entries, products)
topExitByProduct == TopByProduct(exits, products)

\* ------------------------------------------------------------- consumption
Null == <<>>
Some(n) == <<n>>

Min(S) == CHOOSE x \in S : \A y \in S : x <= y
Max(S) == CHOOSE x \in S : \A y \in S : x >= y
MaxOf(a, b) == IF a >= b THEN a ELSE b

\* Mutant: the span is rounded down to whole days.
FloorDays(ticks) == ticks \div TicksPerDay

\* Math.ceil(ms / (1000 * 60 * 60 * 24)) for ms >= 0
CeilDays(ticks) == (ticks + TicksPerDay - 1) \div TicksPerDay

\* Mutant: the quotient is truncated.
FloorDiv(n, d) == n \div d

\* Math.round(n / d) for d > 0: halves round towards plus infinity
RoundDiv(n, d) == (2 * n + d) \div (2 * d)

periodDays(per) ==
  IF per = "7d" THEN Some(7)
  ELSE IF per = "30d" THEN Some(30)
  ELSE IF per = "90d" THEN Some(90)
  ELSE Null

\* Mutant: the thresholds are exclusive.
StatusOfExclusive(daysUntilEmpty) ==
  IF daysUntilEmpty # Null /\ daysUntilEmpty[1] < 7 THEN "critical"
  ELSE IF daysUntilEmpty # Null /\ daysUntilEmpty[1] < 30 THEN "warning"
  ELSE "ok"

\* if (daysUntilEmpty !== null && daysUntilEmpty <= 7) ... else if (... <= 30)
StatusOf(daysUntilEmpty) ==
  IF daysUntilEmpty # Null /\ daysUntilEmpty[1] <= 7 THEN "critical"
  ELSE IF daysUntilEmpty # Null /\ daysUntilEmpty[1] <= 30 THEN "warning"
  ELSE "ok"

\* Mutant: an empty stock is taken for a missing value.
DaysUntilEmptyFalsy(quantity, dailyAvg) ==
  IF dailyAvg.num > 0 /\ quantity # 0
    THEN Some(RoundDiv(quantity * dailyAvg.den, dailyAvg.num))
    ELSE Null

\* dailyAvg > 0 ? Math.round(product.quantity / dailyAvg) : null
DaysUntilEmpty(quantity, dailyAvg) ==
  IF dailyAvg.num > 0
    THEN Some(RoundDiv(quantity * dailyAvg.den, dailyAvg.num))
    ELSE Null

\* One entry of Object.entries(exitsByProduct), for a product of the catalog.
ConsumptionEntry(productId, exs, prods, cats, per) ==
  LET mine == SelectSeq(exs, LAMBDA m : m.productId = productId)
      total == SumSeq(MapQty(mine))
      dates == {mine[i].createdAt : i \in DOMAIN mine}
      product == FindProduct(prods, productId)
      category == SelectSeq(cats, LAMBDA c : c.id = product.categoryId)
      firstDate == Min(dates)
      lastDate == Max(dates)
      daySpan == MaxOf(1, CeilDays(lastDate - firstDate))
      actualDays == IF periodDays(per) # Null THEN periodDays(per)[1] ELSE daySpan
      dailyAvg == [num |-> total, den |-> MaxOf(actualDays, 1)]
      monthlyProjection == [num |-> dailyAvg.num * 30, den |-> dailyAvg.den]
      daysUntilEmpty == DaysUntilEmpty(product.quantity, dailyAvg)
  IN  [product |-> product,
       category |-> IF category = <<>> THEN Null ELSE Some(Head(category)),
       totalConsumed |-> total,
       movCount |-> Len(mine),
       actualDays |-> actualDays,
       dailyAvg |-> dailyAvg,
       monthlyProjection |-> monthlyProjection,
       daysUntilEmpty |-> daysUntilEmpty,
       status |-> StatusOf(daysUntilEmpty),
       costProjection |-> [num |-> monthlyProjection.num * product.price,
                           den |-> monthlyProjection.den]]

ConsumptionData(exs, prods, cats, per) ==
  LET keys == KeysOf(exs)
      known == SelectSeq(keys, LAMBDA id : HasProduct(prods, id))
      rows == [i \in DOMAIN known |->
                 ConsumptionEntry(known[i], exs, prods, cats, per)]
  IN  SortDescBy(rows, [i \in DOMAIN rows |-> rows[i].totalConsumed])

consumptionData == ConsumptionData(exits, products, categories, period)

\* ------------------------------------------------------- category breakdown
\* Mutant: only the products with movements in the filtered set are counted.
CategoryBreakdownOfMoved(cats, prods) ==
  LET moved == SelectSeq(prods, LAMBDA p :
                 \E i \in DOMAIN filtered : filtered[i].productId = p.id)
      rows == [i \in DOMAIN cats |->
                 LET catProducts == SelectSeq(moved, LAMBDA p : p.categoryId = cats[i].id)
                 IN  [category |-> cats[i],
                      productCount |-> Len(catProducts),
                      totalQty |-> SumSeq([k \in DOMAIN catProducts |-> catProducts[k].quantity]),
                      totalVal |-> SumSeq([k \in DOMAIN catProducts |->
                                     catProducts[k].quantity * catProducts[k].price])]]
      kept == SelectSeq(rows, LAMBDA c : c.productCount > 0)
  IN  SortDescBy(kept, [i \in DOMAIN kept |-> kept[i].totalVal])

\* Mutant: the categories without products are kept.
CategoryBreakdownKeepEmpty(cats, prods) ==
  LET rows == [i \in DOMAIN cats |->
                 LET catProducts == SelectSeq(prods, LAMBDA p : p.categoryId = cats[i].id)
                 IN  [category |-> cats[i],
                      productCount |-> Len(catProducts),
                      totalQty |-> SumSeq([k \in DOMAIN catProducts |-> catProducts[k].quantity]),
                      totalVal |-> SumSeq([k \in DOMAIN catProducts |->
                                     catProducts[k].quantity * catProducts[k].price])]]
  IN  SortDescBy(rows, [i \in DOMAIN rows |-> rows[i].totalVal])

\* categories.map(...).filter((c) => c.productCount > 0).sort(by totalVal, descending)
CategoryBreakdown(cats, prods) ==
  LET rows == [i \in DOMAIN cats |->
                 LET catProducts == SelectSeq(prods, LAMBDA p : p.categoryId = cats[i].id)
                 IN  [category |-> cats[i],
                      productCount |-> Len(catProducts),
                      totalQty |-> SumSeq([k \in DOMAIN catProducts |-> catProducts[k].quantity]),
                      totalVal |-> SumSeq([k \in DOMAIN catProducts |->
                                     catProducts[k].quantity * catProducts[k].price])]]
      kept == SelectSeq(rows, LAMBDA c : c.productCount > 0)
  IN  SortDescBy(kept, [i \in DOMAIN kept |-> kept[i].totalVal])

categoryBreakdown == CategoryBreakdown(categories, products)

\* ------------------------------------------------------------ movement list
\* Mutant: the movements of missing products are left out of the list.
MovementRowsKnown(ms, prods) ==
  LET known == SelectSeq(ms, LAMBDA m : HasProduct(prods, m.productId))
  IN  [i \in DOMAIN known |->
         [movement |-> known[i],
          product |-> Some(FindProduct(prods, known[i].productId)),
          removed |-> FALSE,
          value |-> Some(known[i].quantity * FindProduct(prods, known[i].productId).price)]]

\* entries.map((m) => <MovementRow movement={m} product={products.find(...)} />):
\* the row of a missing product shows "Produto removido" and no value.
MovementRows(ms, prods) ==
  [i \in DOMAIN ms |->
     LET found == HasProduct(prods, ms[i].productId)
     IN  [movement |-> ms[i],
          product |-> IF found THEN Some(FindProduct(prods, ms[i].productId)) ELSE Null,
          removed |-> ~found,
          value |-> IF found
                      THEN Some(ms[i].quantity * FindProduct(prods, ms[i].productId).price)
                      ELSE Null]]

entryRows == MovementRows(entries, products)
exitRows == MovementRows(exits, products)

\* ---------------------------------------------------------- general report
\* products.length > 0 ? products.reduce((a, p) => a + p.price, 0) / products.length : 0
AvgPrice(prods) ==
  IF Len(prods) > 0
    THEN [num |-> SumSeq([i \in DOMAIN prods |-> prods[i].price]), den |-> Len(prods)]
    ELSE [num |-> 0, den |-> 1]

avgPrice == AvgPrice(products)

\* products.reduce((a, p) => a + p.quantity * p.price, 0)
TotalStockValue(prods) ==
  SumSeq([i \in DOMAIN prods |-> prods[i].quantity * prods[i].price])

\* Mutant: a product at its minimum stock is not low.
LowStockStrict(prods) == SelectSeq(prods, LAMBDA p : p.quantity < p.minStock)

\* products.filter((p) => p.quantity <= p.minStock)
LowStock(prods) == SelectSeq(prods, LAMBDA p : p.quantity <= p.minStock)

\* products.filter((p) => p.quantity === 0)
ZeroStock(prods) == SelectSeq(prods, LAMBDA p : p.quantity = 0)

totalStockValue == TotalStockValue(products)
lowStock == LowStock(products)
zeroStock == ZeroStock(products)

\* renderContent: the report drawn for a tab; the last branch takes every
\* tab that is none of the first three.
renderContent(t) ==
  [threw |-> FALSE,
   report |-> IF t = "entries" THEN "entries"
              ELSE IF t = "exits" THEN "exits"
              ELSE IF t = "general" THEN "general"
              ELSE "consumption"]

\* ------------------------------------------------------------ ReportsScreen
IdleReader == [pc |-> "idle", p |-> <<>>, c |-> <<>>, m |-> <<>>]
NoMovement == Movement(0, 0, "entry", 0, 0)
IdleOp == [pc |-> "idle", m |-> NoMovement, ms |-> <<>>, ps |-> <<>>]
Clients == {"a", "b"}
\* useState of AddMovementScreen: the loaded products, the last Alert, and
\* (history) the last input handleSave was given; useState of CategoriesScreen:
\* the loaded categories and their product counts; BackupScreen: the file
\* last exported and (history) the backup last imported.
IdleForm ==
  [products |-> <<>>, alert |-> "", last |-> <<>>,
   categories |-> <<>>, productCounts |-> <<>>,
   file |-> <<>>, imported |-> <<>>]

\* No storage call and no read in flight.
StoreIdle ==
  /\ ops = [c \in Clients |-> IdleOp]
  /\ nextId = 1
  /\ recorded = <<>>
  /\ reader = IdleReader
  /\ loadSeen = {}
  /\ loadedFrom = {}
  /\ form = [c \in Clients |-> IdleForm]

ScreenInit ==
  /\ products = <<>>
  /\ categories = <<>>
  /\ movements = <<>>
  /\ tab = "entries"
  /\ period = "30d"
  /\ selectedProductIds = {}
  /\ filtered = <<>>
  /\ clock = Now0

\* m.sort((a, b) => new Date(b.createdAt) - new Date(a.createdAt))
SortMovements(ms) == SortDescBy(ms, [i \in DOMAIN ms |-> ms[i].createdAt])

\* useFocusEffect: the three lists are read from a store nobody is writing.
Focus ==
  /\ products' = store.products
  /\ categories' = store.categories
  /\ movements' = SortMovements(store.movements)
  /\ filtered' = Filtered(movements', period, selectedProductIds, clock)
  /\ UNCHANGED <<store, tab, period, selectedProductIds, clock>>
  /\ UNCHANGED storeVars

SetTab(t) ==
  /\ t # tab
  /\ tab' = t
  /\ UNCHANGED <<store, products, categories, movements, period,
                 selectedProductIds, filtered, clock>>
  /\ UNCHANGED storeVars

\* Mutant: the period filter cuts the loaded movement list itself.
SetPeriodInPlace(p) ==
  /\ p # period
  /\ period' = p
  /\ filtered' = Filtered(movements, p, selectedProductIds, clock)
  /\ movements' = filterByPeriod(movements, p, clock)
  /\ UNCHANGED <<store, products, categories, tab, selectedProductIds, clock>>
  /\ UNCHANGED storeVars

SetPeriod(p) ==
  /\ p # period
  /\ period' = p
  /\ filtered' = Filtered(movements, p, selectedProductIds, clock)
  /\ UNCHANGED <<store, products, categories, movements, tab,
                 selectedProductIds, clock>>
  /\ UNCHANGED storeVars

toggleProduct(id) ==
  /\ id \in selectedProductIds \/ Cardinality(selectedProductIds) < MaxSelected
  /\ selectedProductIds' =
       IF id \in selectedProductIds
         THEN selectedProductIds \ {id}
         ELSE selectedProductIds \cup {id}
  /\ filtered' = Filtered(movements, period, selectedProductIds', clock)
  /\ UNCHANGED <<store, products, categories, movements, tab, period, clock>>
  /\ UNCHANGED storeVars

clearFilters ==
  /\ Cardinality(selectedProductIds) > 0
  /\ selectedProductIds' = {}
  /\ filtered' = Filtered(movements, period, {}, clock)
  /\ UNCHANGED <<store, products, categories, movements, tab, period, clock>>
  /\ UNCHANGED storeVars

Tick ==
  /\ clock < Now0 + MaxTicks
  /\ clock' = clock + 1
  /\ UNCHANGED <<store, products, categories, movements, tab, period,
                 selectedProductIds, filtered>>
  /\ UNCHANGED storeVars

\* The handlers of the screen, with the clock standing still.
NextScreen ==
  \/ Focus
  \/ \E t \in ReportTab : SetTab(t)
  \/ \E p \in Period : SetPeriod(p)
  \/ \E i \in DOMAIN products : toggleProduct(products[i].id)
  \/ clearFilters

\* The handlers of the screen while time passes.
NextReport ==
  \/ NextScreen
  \/ Tick

\* ----------------------------------------------------------------- storage
\* A write to the store, seen by the reads in flight.
WriteStore(new) ==
  /\ store' = new
  /\ loadSeen' = IF reader.pc = "loading" THEN loadSeen \cup {new} ELSE loadSeen

Finish(c, m) ==
  /\ ops' = [ops EXCEPT ![c] = IdleOp]
  /\ recorded' = Append(recorded, m)

\* newQuantity: an entry adds, an exit subtracts and stops at 0.
NewQuantity(quantity, type, qty) ==
  IF type = "entry" THEN quantity + qty ELSE MaxOf(0, quantity - qty)

\* products.findIndex((p) => p.id === data.productId), then the adjustment
AdjustProduct(ps, m) ==
  LET index == CHOOSE i \in DOMAIN ps :
                 /\ ps[i].id = m.productId
                 /\ \A j \in DOMAIN ps : ps[j].id = m.productId => i <= j
  IN  [ps EXCEPT ![index].quantity = NewQuantity(@, m.type, m.quantity)]

\* addMovement of the AsyncStorage layer: getMovements()
LocalAddCall(c, pid, type, qty) ==
  /\ backend = "local"
  /\ ops[c].pc = "idle"
  /\ nextId <= MaxStoreMovements
  /\ ops' = [ops EXCEPT ![c] = [pc |-> "writeMovements",
                                m |-> Movement(nextId, pid, type, qty, clock),
                                ms |-> store.movements, ps |-> <<>>]]
  /\ nextId' = nextId + 1
  /\ UNCHANGED <<store, screenVars, clock, backend, recorded, reader,
                 loadSeen, loadedFrom>>

\* addMovement called by a client other than the add-movement screen.
LocalAddBegin(c, pid, type, qty) ==
  /\ LocalAddCall(c, pid, type, qty)
  /\ UNCHANGED form

\* movements.push(movement); setItem(KEYS.MOVEMENTS, ...)
LocalAddWriteMovements(c) ==
  /\ ops[c].pc = "writeMovements"
  /\ WriteStore([store EXCEPT !.movements = Append(ops[c].ms, ops[c].m)])
  /\ ops' = [ops EXCEPT ![c].pc = "readProducts"]
  /\ UNCHANGED <<form, screenVars, clock, backend, nextId, recorded, reader, loadedFrom>>

\* getProducts(); findIndex
LocalAddReadProducts(c) ==
  /\ ops[c].pc = "readProducts"
  /\ IF HasProduct(store.products, ops[c].m.productId)
       THEN /\ ops' = [ops EXCEPT ![c].pc = "writeProducts",
                                  ![c].ps = store.products]
            /\ UNCHANGED recorded
       ELSE Finish(c, ops[c].m)
  /\ UNCHANGED <<form, store, screenVars, clock, backend, nextId, reader,
                 loadSeen, loadedFrom>>

\* setItem(KEYS.PRODUCTS, ...)
LocalAddWriteProducts(c) ==
  /\ ops[c].pc = "writeProducts"
  /\ WriteStore([store EXCEPT !.products = AdjustProduct(ops[c].ps, ops[c].m)])
  /\ Finish(c, ops[c].m)
  /\ UNCHANGED <<form, screenVars, clock, backend, nextId, reader, loadedFrom>>

\* POST /api/movements: the insert; it fails when the product row is missing
\* (product_id references products.id) and the handler answers 500.
ApiAddCall(c, pid, type, qty) ==
  /\ backend = "api"
  /\ ops[c].pc = "idle"
  /\ nextId <= MaxStoreMovements
  /\ nextId' = nextId + 1
  /\ IF HasProduct(store.products, pid)
       THEN /\ WriteStore([store EXCEPT !.movements =
                             Append(@, Movement(nextId, pid, type, qty, clock))])
            /\ ops' = [ops EXCEPT ![c] = [pc |-> "selectProduct",
                                          m |-> Movement(nextId, pid, type, qty, clock),
                                          ms |-> <<>>, ps |-> <<>>]]
       ELSE UNCHANGED <<store, loadSeen, ops>>
  /\ UNCHANGED <<screenVars, clock, backend, recorded, reader, loadedFrom>>

\* POST /api/movements sent by a client other than the add-movement screen.
ApiAddInsert(c, pid, type, qty) ==
  /\ ApiAddCall(c, pid, type, qty)
  /\ UNCHANGED form

\* const [product] = await db.select().from(products).where(...)
ApiAddSelect(c) ==
  /\ ops[c].pc = "selectProduct"
  /\ IF HasProduct(store.products, ops[c].m.productId)
       THEN /\ ops' = [ops EXCEPT ![c].pc = "updateProduct",
                                  ![c].ps = <<FindProduct(store.products,
                                                          ops[c].m.productId)>>]
            /\ UNCHANGED recorded
       ELSE Finish(c, ops[c].m)
  /\ UNCHANGED <<form, store, screenVars, clock, backend, nextId, reader,
                 loadSeen, loadedFrom>>

\* db.update(products).set({ quantity: newQuantity }).where(eq(products.id, productId))
ApiAddUpdate(c) ==
  /\ ops[c].pc = "updateProduct"
  /\ LET m == ops[c].m
         newQuantity == NewQuantity(ops[c].ps[1].quantity, m.type, m.quantity)
     IN  WriteStore([store EXCEPT !.products =
           [i \in DOMAIN @ |-> IF @[i].id = m.productId
                                 THEN [@[i] EXCEPT !.quantity = newQuantity]
                                 ELSE @[i]]])
  /\ Finish(c, ops[c].m)
  /\ UNCHANGED <<form, screenVars, clock, backend, nextId, reader, loadedFrom>>

RequestQuantities == {1, 2}

\* The steps of an addMovement call after its first.
addMovementRest(c) ==
  \/ LocalAddWriteMovements(c)
  \/ LocalAddReadProducts(c)
  \/ LocalAddWriteProducts(c)
  \/ ApiAddSelect(c)
  \/ ApiAddUpdate(c)

addMovement(c) ==
  \/ \E pid \in {1}, type \in MovementType, qty \in RequestQuantities :
       \/ LocalAddBegin(c, pid, type, qty)
       \/ ApiAddInsert(c, pid, type, qty)
  \/ addMovementRest(c)

InitialStore ==
  [categories |-> TwoCategories,
   products |-> <<Product(1, 1, InitialStock, 0, 150)>>,
   movements |-> <<>>]

InitStore ==
  /\ ScreenInit
  /\ StoreIdle
  /\ backend \in {"local", "api"}
  /\ store = InitialStore

\* Two clients recording movements.
NextRecord == \E c \in Clients : addMovement(c)

SpecRecord == InitStore /\ [][NextRecord]_vars

\* deleteProduct of the AsyncStorage layer: getProducts()
LocalDeleteBegin(c, id) ==
  /\ backend = "local"
  /\ ops[c].pc = "idle"
  /\ HasProduct(store.products, id)
  /\ ops' = [ops EXCEPT ![c] = [pc |-> "deleteWriteProducts",
                                m |-> Movement(0, id, "entry", 0, 0),
                                ms |-> <<>>, ps |-> store.products]]
  /\ UNCHANGED <<form, store, screenVars, clock, backend, nextId, recorded, reader,
                 loadSeen, loadedFrom>>

\* setItem(KEYS.PRODUCTS, products.filter((p) => p.id !== id))
LocalDeleteWriteProducts(c) ==
  /\ ops[c].pc = "deleteWriteProducts"
  /\ WriteStore([store EXCEPT !.products =
       SelectSeq(ops[c].ps, LAMBDA p : p.id # ops[c].m.productId)])
  /\ ops' = [ops EXCEPT ![c].pc = "deleteReadMovements", ![c].ps = <<>>]
  /\ UNCHANGED <<form, screenVars, clock, backend, nextId, recorded, reader, loadedFrom>>

\* getMovements()
LocalDeleteReadMovements(c) ==
  /\ ops[c].pc = "deleteReadMovements"
  /\ ops' = [ops EXCEPT ![c].pc = "deleteWriteMovements",
                        ![c].ms = store.movements]
  /\ UNCHANGED <<form, store, screenVars, clock, backend, nextId, recorded, reader,
                 loadSeen, loadedFrom>>

\* setItem(KEYS.MOVEMENTS, movements.filter((m) => m.productId !== id))
LocalDeleteWriteMovements(c) ==
  /\ ops[c].pc = "deleteWriteMovements"
  /\ WriteStore([store EXCEPT !.movements =
       SelectSeq(ops[c].ms, LAMBDA m : m.productId # ops[c].m.productId)])
  /\ ops' = [ops EXCEPT ![c] = IdleOp]
  /\ UNCHANGED <<form, screenVars, clock, backend, nextId, recorded, reader, loadedFrom>>

\* DELETE /api/products/:id: db.delete(movements).where(productId = id)
ApiDeleteMovements(c, id) ==
  /\ backend = "api"
  /\ ops[c].pc = "idle"
  /\ HasProduct(store.products, id)
  /\ WriteStore([store EXCEPT !.movements =
       SelectSeq(@, LAMBDA m : m.productId # id)])
  /\ ops' = [ops EXCEPT ![c] = [pc |-> "deleteProduct",
                                m |-> Movement(0, id, "entry", 0, 0),
                                ms |-> <<>>, ps |-> <<>>]]
  /\ UNCHANGED <<form, screenVars, clock, backend, nextId, recorded, reader, loadedFrom>>

\* db.delete(products).where(id = id): refused, with a 500 answer, while a
\* movement row still references the product.
ApiDeleteProduct(c) ==
  /\ ops[c].pc = "deleteProduct"
  /\ IF \E i \in DOMAIN store.movements :
          store.movements[i].productId = ops[c].m.productId
       THEN UNCHANGED <<store, loadSeen>>
       ELSE WriteStore([store EXCEPT !.products =
              SelectSeq(@, LAMBDA p : p.id # ops[c].m.productId)])
  /\ ops' = [ops EXCEPT ![c] = IdleOp]
  /\ UNCHANGED <<form, screenVars, clock, backend, nextId, recorded, reader, loadedFrom>>

deleteProduct(c) ==
  \/ \E id \in {1} : LocalDeleteBegin(c, id) \/ ApiDeleteMovements(c, id)
  \/ LocalDeleteWriteProducts(c)
  \/ LocalDeleteReadMovements(c)
  \/ LocalDeleteWriteMovements(c)
  \/ ApiDeleteProduct(c)

\* useFocusEffect: Promise.all starts the three reads
LoadBegin ==
  /\ reader.pc = "idle"
  /\ reader' = [IdleReader EXCEPT !.pc = "loading"]
  /\ loadSeen' = {store}
  /\ loadedFrom' = {}
  /\ UNCHANGED <<form, store, screenVars, clock, backend, ops, nextId, recorded>>

\* getProducts() answers
LoadProducts ==
  /\ reader.pc = "loading"
  /\ reader.p = Null
  /\ reader' = [reader EXCEPT !.p = Some(store.products)]
  /\ UNCHANGED <<form, store, screenVars, clock, backend, ops, nextId, recorded,
                 loadSeen, loadedFrom>>

\* getCategories() answers
LoadCategories ==
  /\ reader.pc = "loading"
  /\ reader.c = Null
  /\ reader' = [reader EXCEPT !.c = Some(store.categories)]
  /\ UNCHANGED <<form, store, screenVars, clock, backend, ops, nextId, recorded,
                 loadSeen, loadedFrom>>

\* getMovements() answers
LoadMovements ==
  /\ reader.pc = "loading"
  /\ reader.m = Null
  /\ reader' = [reader EXCEPT !.m = Some(store.movements)]
  /\ UNCHANGED <<form, store, screenVars, clock, backend, ops, nextId, recorded,
                 loadSeen, loadedFrom>>

\* .then(([p, c, m]) => { setProducts(p); setCategories(c); setMovements(sorted) })
LoadCommit ==
  /\ reader.pc = "loading"
  /\ reader.p # Null /\ reader.c # Null /\ reader.m # Null
  /\ products' = reader.p[1]
  /\ categories' = reader.c[1]
  /\ movements' = SortMovements(reader.m[1])
  /\ filtered' = Filtered(movements', period, selectedProductIds, clock)
  /\ reader' = IdleReader
  /\ loadedFrom' = loadSeen
  /\ loadSeen' = {}
  /\ UNCHANGED <<form, store, tab, period, selectedProductIds, clock, backend, ops,
                 nextId, recorded>>

Load == LoadBegin \/ LoadProducts \/ LoadCategories \/ LoadMovements \/ LoadCommit

\* The report screen loading while one client records and another deletes.
Next == Load \/ addMovement("a") \/ deleteProduct("b")

Spec == InitStore /\ [][Next]_vars

\* One client records while another deletes the product.
NextCascade == addMovement("a") \/ deleteProduct("b")

SpecCascade == InitStore /\ [][NextCascade]_vars

\* Requests sent to POST /api/movements by any HTTP client: the route reads
\* quantity from the body and validates nothing.
PostQuantities == {-2, 0, 1, 2}

PostMovement(c) ==
  \/ \E type \in MovementType, qty \in PostQuantities :
       ApiAddInsert(c, 1, type, qty)
  \/ ApiAddSelect(c)
  \/ ApiAddUpdate(c)

InitPost ==
  /\ ScreenInit
  /\ StoreIdle
  /\ backend = "api"
  /\ store = InitialStore

NextPost == \E c \in Clients : PostMovement(c)

SpecPost == InitPost /\ [][NextPost]_vars

\* -------------------------------------------------------- AddMovementScreen
Digits == {"0", "1", "2", "3", "4", "5", "6", "7", "8", "9"}

DigitValue(ch) ==
  CASE ch = "0" -> 0 [] ch = "1" -> 1 [] ch = "2" -> 2 [] ch = "3" -> 3
    [] ch = "4" -> 4 [] ch = "5" -> 5 [] ch = "6" -> 6 [] ch = "7" -> 7
    [] ch = "8" -> 8 [] ch = "9" -> 9

\* The value of the digits of text from position i on, up to the first
\* character that is not a digit.
RECURSIVE DigitsValue(_, _, _)
DigitsValue(text, i, acc) ==
  IF i > Len(text) \/ text[i] \notin Digits
    THEN acc
    ELSE DigitsValue(text, i + 1, acc * 10 + DigitValue(text[i]))

\* parseInt(quantity): an optional sign, then the longest prefix of digits;
\* NaN (Null) when there is no digit there.
ParseInt(text) ==
  LET neg == Len(text) > 0 /\ text[1] = "-"
      start == IF neg THEN 2 ELSE 1
  IN  IF start > Len(text) \/ text[start] \notin Digits
        THEN Null
        ELSE Some((IF neg THEN -1 ELSE 1) * DigitsValue(text, start, 0))

\* What the quantity field can hold when Salvar is pressed.
QuantityTexts ==
  { <<>>, <<"0">>, <<"1">>, <<"2">>, <<"-", "1">>, <<"1", ".", "5">>, <<"a">> }

\* selectedProduct: "" (0 here) until a product is chosen.
NoProduct == 0

\* useFocusEffect: getProducts().then(setProducts)
FormLoad(c) ==
  /\ form[c].products # store.products
  /\ form' = [form EXCEPT ![c].products = store.products]
  /\ UNCHANGED <<store, screenVars, clock, backend, ops, nextId, recorded,
                 reader, loadSeen, loadedFrom>>

\* The quantity of the selected product in the loaded list, if it is there.
Available(c, selectedProduct) ==
  IF HasProduct(form[c].products, selectedProduct)
    THEN Some(FindProduct(form[c].products, selectedProduct).quantity)
    ELSE Null

Input(c, selectedProduct, type, quantity, saved) ==
  [selectedProduct |-> selectedProduct, type |-> type, quantity |-> quantity,
   available |-> Available(c, selectedProduct), saved |-> saved]

\* The Alert handleSave returns with, "" when it goes on to addMovement.
SaveError(c, selectedProduct, type, quantity) ==
  LET qty == ParseInt(quantity)
      available == Available(c, selectedProduct)
  IN  IF selectedProduct = NoProduct THEN "Selecione um produto"
      ELSE IF qty = Null \/ qty[1] = 0 \/ qty[1] <= 0
        THEN "Informe uma quantidade valida"
      ELSE IF type = "exit" /\ available # Null /\ qty[1] > available[1]
        THEN "Quantidade disponivel"
      ELSE ""

\* handleSave: validate, then await addMovement(...)
handleSave(c, selectedProduct, type, quantity) ==
  /\ ops[c].pc = "idle"
  /\ LET error == SaveError(c, selectedProduct, type, quantity)
     IN  IF error # ""
           THEN /\ form' = [form EXCEPT
                     ![c].alert = error,
                     ![c].last = <<Input(c, selectedProduct, type, quantity, FALSE)>>]
                /\ UNCHANGED <<store, screenVars, clock, backend, ops, nextId,
                               recorded, reader, loadSeen, loadedFrom>>
           ELSE /\ form' = [form EXCEPT
                     ![c].alert = "",
                     ![c].last = <<Input(c, selectedProduct, type, quantity, TRUE)>>]
                /\ \/ LocalAddCall(c, selectedProduct, type, ParseInt(quantity)[1])
                   \/ ApiAddCall(c, selectedProduct, type, ParseInt(quantity)[1])

AddMovementScreen(c, texts) ==
  \/ FormLoad(c)
  \/ \E selectedProduct \in {NoProduct, 1}, type \in MovementType,
        quantity \in texts :
       handleSave(c, selectedProduct, type, quantity)
  \/ addMovementRest(c)

\* One device, anything typed into the quantity field.
NextForm == AddMovementScreen("a", QuantityTexts)

SpecForm == InitStore /\ [][NextForm]_vars

\* Two devices recording movements through the add-movement screen.
NextAdd == \E c \in Clients : AddMovementScreen(c, {<<"0">>, <<"1">>, <<"2">>})

SpecAdd == InitStore /\ [][NextAdd]_vars

\* --------------------------------------------------------- CategoriesScreen
\* loadData: the categories, and for each the number of products in it
\* (productCounts[i] is the count of categories[i]).
loadData(c) ==
  /\ form' = [form EXCEPT
       ![c].categories = store.categories,
       ![c].productCounts =
         [i \in DOMAIN store.categories |->
            Len(SelectSeq(store.products,
                          LAMBDA p : p.categoryId = store.categories[i].id))]]
  /\ form' # form
  /\ UNCHANGED <<store, screenVars, clock, backend, ops, nextId, recorded,
                 reader, loadSeen, loadedFrom>>

\* handleDelete of the row i of the screen, the confirmation accepted: refused
\* when the loaded count is positive; else deleteCategory(cat.id), which in the
\* AsyncStorage layer starts with getCategories(), and in the API layer is
\* DELETE /api/categories/:id, refused by the database (500) while a product
\* row references the category.
handleDelete(c, i) ==
  /\ ops[c].pc = "idle"
  /\ i \in DOMAIN form[c].categories
  /\ LET cat == form[c].categories[i]
         count == form[c].productCounts[i]
     IN  IF count > 0
           THEN /\ form' = [form EXCEPT ![c].alert = "Categoria em uso"]
                /\ UNCHANGED <<store, loadSeen, ops>>
           ELSE /\ form' = [form EXCEPT ![c].alert = ""]
                /\ IF backend = "local"
                     THEN /\ ops' = [ops EXCEPT ![c] =
                               [pc |-> "writeCategories", id |-> cat.id,
                                categories |-> store.categories]]
                          /\ UNCHANGED <<store, loadSeen>>
                     ELSE /\ IF \E j \in DOMAIN store.products :
                                   store.products[j].categoryId = cat.id
                               THEN UNCHANGED <<store, loadSeen>>
                               ELSE WriteStore([store EXCEPT !.categories =
                                      SelectSeq(@, LAMBDA x : x.id # cat.id)])
                          /\ UNCHANGED ops
  /\ UNCHANGED <<screenVars, clock, backend, nextId, recorded, reader, loadedFrom>>

\* deleteCategory of the AsyncStorage layer: setItem(KEYS.CATEGORIES, filtered)
LocalDeleteCategoryWrite(c) ==
  /\ ops[c].pc = "writeCategories"
  /\ WriteStore([store EXCEPT !.categories =
       SelectSeq(ops[c].categories, LAMBDA x : x.id # ops[c].id)])
  /\ ops' = [ops EXCEPT ![c] = IdleOp]
  /\ UNCHANGED <<form, screenVars, clock, backend, nextId, recorded, reader,
                 loadedFrom>>

CategoriesScreen(c) ==
  \/ loadData(c)
  \/ \E i \in DOMAIN form[c].categories : handleDelete(c, i)
  \/ LocalDeleteCategoryWrite(c)

\* updateProduct(id, {categoryId, ...}) called by the product form: in the
\* AsyncStorage layer getProducts() and findIndex; in the API layer
\* PATCH /api/products/:id, refused by the database (500) when no category row
\* has the id.
updateProductBegin(c, id, categoryId) ==
  /\ ops[c].pc = "idle"
  /\ IF backend = "local"
       THEN /\ IF HasProduct(store.products, id)
                 THEN ops' = [ops EXCEPT ![c] =
                        [pc |-> "writeProduct", id |-> id,
                         categoryId |-> categoryId, products |-> store.products]]
                 ELSE UNCHANGED ops
            /\ UNCHANGED <<store, loadSeen>>
       ELSE /\ IF \E j \in DOMAIN store.categories :
                     store.categories[j].id = categoryId
                 THEN WriteStore([store EXCEPT !.products =
                        [j \in DOMAIN @ |->
                           IF @[j].id = id
                             THEN [@[j] EXCEPT !.categoryId = categoryId]
                             ELSE @[j]]])
                 ELSE UNCHANGED <<store, loadSeen>>
            /\ UNCHANGED ops
  /\ UNCHANGED <<form, screenVars, clock, backend, nextId, recorded, reader,
                 loadedFrom>>

\* products[index] = {...products[index], ...data}; setItem(KEYS.PRODUCTS, ...)
LocalUpdateProductWrite(c) ==
  /\ ops[c].pc = "writeProduct"
  /\ WriteStore([store EXCEPT !.products =
       [j \in DOMAIN ops[c].products |->
          IF j = CHOOSE k \in DOMAIN ops[c].products :
                   /\ ops[c].products[k].id = ops[c].id
                   /\ \A l \in DOMAIN ops[c].products :
                        ops[c].products[l].id = ops[c].id => k <= l
            THEN [ops[c].products[j] EXCEPT !.categoryId = ops[c].categoryId]
            ELSE ops[c].products[j]]])
  /\ ops' = [ops EXCEPT ![c] = IdleOp]
  /\ UNCHANGED <<form, screenVars, clock, backend, nextId, recorded, reader,
                 loadedFrom>>

\* The product form saving product 1 with one of the categories it listed.
updateProduct(c) ==
  \/ \E categoryId \in {1, 2} : updateProductBegin(c, 1, categoryId)
  \/ LocalUpdateProductWrite(c)

\* One client on the categories screen, another on the product form.
NextCategories == CategoriesScreen("a") \/ updateProduct("b")

SpecCategories == InitStore /\ [][NextCategories]_vars

\* ------------------------------------------------------------- BackupScreen
\* Crypto.randomUUID() for a category or a product: an id no row has.
NewId(n) == 10 + n

\* A backup file written by another installation.
OtherBackup ==
  [categories |-> <<[id |-> 7]>>,
   products |-> <<Product(8, 7, 3, 0, 100)>>,
   movements |-> <<Movement(9, 8, "entry", 3, Now0)>>]

\* exportAllData: the three lists as they are stored.
exportAllData(c) ==
  /\ ops[c].pc = "idle"
  /\ form' = [form EXCEPT ![c].file =
       <<[categories |-> store.categories, products |-> store.products,
          movements |-> store.movements]>>]
  /\ form' # form
  /\ UNCHANGED <<store, screenVars, clock, backend, ops, nextId, recorded,
                 reader, loadSeen, loadedFrom>>

\* handleImportFile: the file is parsed, has the three lists, and the
\* confirmation is accepted; importAllData(data) starts.
handleImportFile(c, data) ==
  /\ ops[c].pc = "idle"
  /\ nextId + Len(data.categories) + Len(data.products) - 1 <= MaxImportIds
  /\ ops' = [ops EXCEPT ![c] = [pc |-> "import", data |-> data, i |-> 1]]
  /\ form' = [form EXCEPT ![c].alert = "", ![c].imported = <<data>>]
  /\ UNCHANGED <<store, screenVars, clock, backend, nextId, recorded, reader,
                 loadSeen, loadedFrom>>

\* importAllData, one awaited call at a time: addCategory(cat.name, cat.color)
\* for each category, then addProduct({...}) for each product, each under a
\* new id; the movements of the file are not read. POST /api/products is
\* refused by the database (500) when no category row has the categoryId, and
\* the import stops there.
importAllData(c) ==
  /\ ops[c].pc = "import"
  /\ LET data == ops[c].data
         i == ops[c].i
         n == Len(data.categories)
         prod == data.products[i - n]
     IN  IF i <= n
           THEN /\ WriteStore([store EXCEPT !.categories =
                                 Append(@, [id |-> NewId(nextId)])])
                /\ nextId' = nextId + 1
                /\ ops' = [ops EXCEPT ![c].i = i + 1]
                /\ UNCHANGED form
           ELSE IF i <= n + Len(data.products)
             THEN IF \/ backend = "local"
                     \/ \E j \in DOMAIN store.categories :
                          store.categories[j].id = prod.categoryId
                    THEN /\ WriteStore([store EXCEPT !.products =
                              Append(@, [prod EXCEPT !.id = NewId(nextId)])])
                         /\ nextId' = nextId + 1
                         /\ ops' = [ops EXCEPT ![c].i = i + 1]
                         /\ UNCHANGED form
                    ELSE /\ ops' = [ops EXCEPT ![c] = IdleOp]
                         /\ form' = [form EXCEPT ![c].alert = "Erro"]
                         /\ UNCHANGED <<store, loadSeen, nextId>>
             ELSE /\ ops' = [ops EXCEPT ![c] = IdleOp]
                  /\ UNCHANGED <<store, loadSeen, nextId, form>>
  /\ UNCHANGED <<screenVars, clock, backend, recorded, reader, loadedFrom>>

BackupScreen(c) ==
  \/ exportAllData(c)
  \/ handleImportFile(c, OtherBackup)
  \/ \E k \in DOMAIN form[c].file : handleImportFile(c, form[c].file[k])
  \/ importAllData(c)

\* One installation exporting and importing backups.
NextBackup == BackupScreen("a")

SpecBackup == InitStore /\ [][NextBackup]_vars

\* ---------------------------------------------------------------- data sets
\* Aggregation data sets: up to two products, movements that may reference a
\* product that is not in the catalog (id 3); the first movement is older
\* than thirty days.
AggCatalogs ==
  { <<>>,
    <<Product(1, 1, 7, 0, 0)>>,
    <<Product(1, 1, 7, 0, 150)>>,
    <<Product(1, 1, 7, 0, 150), Product(2, 2, 8, 0, 200)>> }

AggTime(i) == IF i = 1 THEN Now0 - 30 * TicksPerDay - 1 ELSE Now0

AggShapes == [productId : 1..3, type : MovementType, quantity : {1, 2}]

AggMovements ==
  UNION { { [i \in 1..n |-> Movement(i, f[i].productId, f[i].type,
                                     f[i].quantity, AggTime(i))] :
            f \in [1..n -> AggShapes] } : n \in 0..MaxAggMovements }

\* Wide data sets: k products, one movement each, all of one type.
WideCatalog(k) == [i \in 1..k |-> Product(i, 1 + (i % 2), 7, 0, 100 + i)]

WideMovements(k, type, rising) ==
  [i \in 1..k |-> Movement(i, i, type, IF rising THEN i ELSE 1, Now0)]

InitAgg ==
  /\ ScreenInit
  /\ StoreIdle
  /\ backend = "local"
  /\ \/ \E c \in AggCatalogs, ms \in AggMovements :
          store = [categories |-> TwoCategories, products |-> c, movements |-> ms]
     \/ \E k \in (TopN - 1)..MaxWide, type \in MovementType, rising \in BOOLEAN :
          store = [categories |-> TwoCategories, products |-> WideCatalog(k),
                   movements |-> WideMovements(k, type, rising)]

SpecAgg == InitAgg /\ [][NextScreen]_vars

\* Period-filter data sets: two products, exits whose creation times sit
\* around the three cutoffs, stored in the order they were recorded.
FilterTimes ==
  {Now0} \cup { Now0 - n * TicksPerDay + d : n \in {7, 30, 90}, d \in {-1, 0, 1} }

FilterMovements ==
  UNION { { [i \in 1..n |-> Movement(i, 1 + (i % 2), "exit", 1, t[i])] :
            t \in { u \in [1..n -> FilterTimes] :
                      \A i \in 1..(n - 1) : u[i] <= u[i + 1] } } :
          n \in 0..MaxFilterMovements }

InitFilter ==
  /\ ScreenInit
  /\ StoreIdle
  /\ backend = "local"
  /\ \E ms \in FilterMovements :
       store = [categories |-> TwoCategories,
                products |-> <<Product(1, 1, 7, 0, 150), Product(2, 2, 8, 0, 200)>>,
                movements |-> ms]

SpecFilter == InitFilter /\ [][NextReport]_vars

\* Consumption data sets: the stock of product 1 sits around the urgency
\* thresholds, product 2 has a category that no longer exists; up to
\* MaxConsMovements exits, recorded within the last two days.
ConsQuantities == {0, 7, 8, 30, 31}
ConsExitQuantities == {1, 7}
ConsTimes == {Now0 - TicksPerDay - 1, Now0 - 1, Now0}

ConsMovements ==
  UNION { { [i \in 1..n |-> Movement(i, f[i].productId, "exit",
                                     f[i].quantity, f[i].createdAt)] :
            f \in { g \in [1..n -> [productId : {1, 2},
                                    quantity : ConsExitQuantities,
                                    createdAt : ConsTimes]] :
                      \A i \in 1..(n - 1) : g[i].createdAt <= g[i + 1].createdAt } } :
          n \in 0..MaxConsMovements }

\* Two worked data sets: a stock of 50 at price 2.00 with one exit of 10,
\* and the same stock with three exits of 5.
ConsExamples ==
  { <<Movement(1, 1, "exit", 10, Now0)>>,
    <<Movement(1, 1, "exit", 5, Now0 - 2), Movement(2, 1, "exit", 5, Now0 - 1),
      Movement(3, 1, "exit", 5, Now0)>> }

InitCons ==
  /\ ScreenInit
  /\ StoreIdle
  /\ backend = "local"
  /\ \/ \E q \in ConsQuantities, ms \in ConsMovements :
          store = [categories |-> TwoCategories,
                   products |-> <<Product(1, 1, q, 8, 150), Product(2, 3, 30, 0, 200)>>,
                   movements |-> ms]
     \/ \E ms \in ConsExamples :
          store = [categories |-> TwoCategories,
                   products |-> <<Product(1, 1, 50, 0, 200)>>,
                   movements |-> ms]
     \/ store = [categories |-> TwoCategories,
                 products |-> <<Product(1, 1, 5, 0, 1000), Product(2, 1, 3, 0, 2000)>>,
                 movements |-> <<>>]

SpecCons == InitCons /\ [][NextScreen]_vars

\* Small catalogs, with and without products and categories; the movements
\* are of product 1 and of a product that is in no catalog (id 3).
CatalogMovements ==
  UNION { { [i \in 1..n |-> Movement(i, f[i].productId, f[i].type, 1, AggTime(i))] :
            f \in [1..n -> [productId : {1, 3}, type : MovementType]] } :
          n \in 0..MaxAggMovements }

InitCatalog ==
  /\ ScreenInit
  /\ StoreIdle
  /\ backend = "local"
  /\ \E cs \in {<<>>, TwoCategories},
        ps \in {<<>>, <<Product(1, 1, 7, 0, 150)>>,
                <<Product(1, 1, 7, 0, 150), Product(2, 1, 8, 0, 200)>>},
        ms \in CatalogMovements :
       store = [categories |-> cs, products |-> ps, movements |-> ms]

SpecCatalog == InitCatalog /\ [][NextScreen]_vars

\* ================================================================== claims
RankQty(rows) == SumSeq([i \in DOMAIN rows |-> rows[i].qty])
RankValue(rows) == SumSeq([i \in DOMAIN rows |-> rows[i].qty * rows[i].product.price])

KnownOnly(ms) == SelectSeq(ms, LAMBDA m : HasProduct(products, m.productId))
KnownKeys(ms) == Range(KeysOf(KnownOnly(ms)))

C2_ValueConservation ==
  /\ RankValue(topEntryByProduct) = entryValue
  /\ RankValue(topExitByProduct) = exitValue

\* C2 (amended): the same, when at most TopN distinct catalog products have
\* entries (exits) in the filtered set.
C2_ValueConservationUpToTopN ==
  /\ Cardinality(KnownKeys(entries)) <= TopN
       => RankValue(topEntryByProduct) = entryValue
  /\ Cardinality(KnownKeys(exits)) <= TopN
       => RankValue(topExitByProduct) = exitValue

\* Exactly TopN priced products have exits: every one has its ranking row.
C2_Witness ==
  /\ Len(exits) = TopN
  /\ Len(topExitByProduct) = TopN
  /\ exitValue > 0

\* The quantities a product can end with when the movements of S are applied
\* one after another, in every order, starting from quantity q.
RECURSIVE SequentialResults(_, _)
SequentialResults(q, S) ==
  IF S = {} THEN {q}
  ELSE UNION {SequentialResults(NewQuantity(q, m.type, m.quantity), S \ {m}) :
                m \in S}

Quiescent == \A c \in Clients : ops[c].pc = "idle"

\* C3: recording a movement is one atomic update: once the concurrent
\* recordings have returned, the stored movement list holds every recorded
\* movement and each product's quantity is the result of applying the recorded
\* movements in some sequential order.
C3_NoLostUpdate ==
  Quiescent =>
    /\ \A i \in DOMAIN recorded : recorded[i] \in Range(store.movements)
    /\ \A i \in DOMAIN store.products :
         store.products[i].quantity \in
           SequentialResults(InitialStock,
             {m \in Range(recorded) : m.productId = store.products[i].id})

\* C4: the products, categories and movements the screen loads on focus are
\* those of one single state the store was in while the three reads ran.
C4_SingleStoreState ==
  loadedFrom # {} =>
    \E s \in loadedFrom :
      /\ products = s.products
      /\ categories = s.categories
      /\ movements = SortMovements(s.movements)

\* The window of each bounded period, in days, and the order of the periods
\* from the narrowest to the widest.
WindowDays(per) == CASE per = "7d" -> 7 [] per = "30d" -> 30 [] per = "90d" -> 90
PeriodRank(per) ==
  CASE per = "7d" -> 1 [] per = "30d" -> 2 [] per = "90d" -> 3 [] per = "all" -> 4

NotOlderThan(ms, per, now) ==
  SelectSeq(ms, LAMBDA m : m.createdAt >= now - WindowDays(per) * TicksPerDay)

\* C5 (as stated): a computation of the filtered set made earlier and one
\* made now from the same movements, period and product filter are equal.
C5_SameInputsSameFiltered ==
  filtered = Filtered(movements, period, selectedProductIds, clock)

\* C5 (amended): the filtered set depends on the movements, the period, the
\* product filter and the clock the period filter reads when it runs: for
\* period "all" an earlier and a later computation agree, and for a bounded
\* period the later one is the earlier one without the movements older than
\* the later cutoff.
C5_FilteredDependsOnClock ==
  Filtered(movements, period, selectedProductIds, clock) =
    IF period = "all" THEN filtered ELSE NotOlderThan(filtered, period, clock)

\* The clock has advanced since the filtered set was computed and a new
\* computation from the same inputs gives another list.
C5_Witness ==
  /\ clock > Now0
  /\ period # "all"
  /\ filtered # <<>>
  /\ filtered # Filtered(movements, period, selectedProductIds, clock)

\* C6: for 7d, 30d and 90d the filter keeps, in order, exactly the movements
\* created at or after the clock minus 7, 30 and 90 days.
C6_PeriodBoundary ==
  \A per \in {"7d", "30d", "90d"} :
    filterByPeriod(movements, per, clock) = NotOlderThan(movements, per, clock)

\* A movement created exactly at the seven-day cutoff is kept and one created
\* a tick earlier is dropped.
C6_Witness ==
  /\ period = "7d"
  /\ Len(movements) = 2
  /\ \E i \in DOMAIN movements : movements[i].createdAt = clock - 7 * TicksPerDay - 1
  /\ Len(filtered) = 1
  /\ filtered[1].createdAt = clock - 7 * TicksPerDay

\* C7: with one clock reading, the movements kept for 7d are among those kept
\* for 30d, those among the ones kept for 90d, and "all" keeps the whole list.
C7_PeriodMonotone ==
  /\ Range(filterByPeriod(movements, "7d", clock))
       \subseteq Range(filterByPeriod(movements, "30d", clock))
  /\ Range(filterByPeriod(movements, "30d", clock))
       \subseteq Range(filterByPeriod(movements, "90d", clock))
  /\ Range(filterByPeriod(movements, "90d", clock))
       \subseteq Range(filterByPeriod(movements, "all", clock))
  /\ filterByPeriod(movements, "all", clock) = movements

\* The three bounded windows keep zero, one and two movements.
C7_Witness ==
  /\ Len(movements) = 2
  /\ Len(filterByPeriod(movements, "7d", clock)) = 0
  /\ Len(filterByPeriod(movements, "30d", clock)) = 1
  /\ Len(filterByPeriod(movements, "90d", clock)) = 2

\* C8 (as stated): filtering the filtered set again, now, with the same or a
\* wider period gives the filtered set back.
C8_RefilterLater ==
  \A q \in Period :
    PeriodRank(q) >= PeriodRank(period)
      => filterByPeriod(filtered, q, clock) = filtered

\* C8 (amended): when both filterings read the same clock value, filtering a
\* filtered list again with the same or a wider period gives it back.
C8_RefilterSameClock ==
  \A p \in Period, q \in Period :
    PeriodRank(q) >= PeriodRank(p)
      => filterByPeriod(filterByPeriod(movements, p, clock), q, clock)
           = filterByPeriod(movements, p, clock)

\* The seven-day filter has dropped one movement and kept another, and is
\* applied again at the same clock value.
C8_Witness ==
  /\ period = "7d"
  /\ Len(movements) = 2
  /\ Len(filtered) = 1
  /\ filtered = Filtered(movements, period, selectedProductIds, clock)
  /\ filterByPeriod(filtered, "30d", clock) = filtered

ConsumptionEntries == Range(consumptionData)

\* C9: an entry is critical exactly when daysUntilEmpty is a number of at most
\* 7, warning exactly when it is a number above 7 and of at most 30, and ok
\* exactly when it is null or above 30; 7 is critical, 8 and 30 are warning,
\* 31 is ok.
C9_UrgencyClassification ==
  /\ \A e \in ConsumptionEntries :
       LET d == e.daysUntilEmpty
       IN  /\ e.status \in {"critical", "warning", "ok"}
           /\ e.status = "critical" <=> (d # Null /\ d[1] <= 7)
           /\ e.status = "warning" <=> (d # Null /\ d[1] > 7 /\ d[1] <= 30)
           /\ e.status = "ok" <=> (d = Null \/ d[1] > 30)
  /\ StatusOf(Some(7)) = "critical"
  /\ StatusOf(Some(8)) = "warning"
  /\ StatusOf(Some(30)) = "warning"
  /\ StatusOf(Some(31)) = "ok"
  /\ StatusOf(Null) = "ok"

\* One entry runs empty in exactly 7 days and is critical, another in exactly
\* 30 days and is a warning.
C9_Witness ==
  /\ \E e \in ConsumptionEntries : e.daysUntilEmpty = Some(7) /\ e.status = "critical"
  /\ \E e \in ConsumptionEntries : e.daysUntilEmpty = Some(30) /\ e.status = "warning"

\* C10: every entry has a daily average of at least 0; daysUntilEmpty is null
\* exactly when the daily average is 0 and is a natural number when the daily
\* average is positive; a daily average of 0 always gives null.
C10_DaysUntilEmptyDefined ==
  /\ \A e \in ConsumptionEntries :
       /\ e.dailyAvg.den > 0
       /\ e.dailyAvg.num >= 0
       /\ e.daysUntilEmpty = Null <=> e.dailyAvg.num = 0
       /\ e.dailyAvg.num > 0 =>
            /\ e.daysUntilEmpty # Null
            /\ e.daysUntilEmpty[1] \in Nat
  /\ \A q \in ConsQuantities, d \in {1, 7, 30, 90} :
       DaysUntilEmpty(q, [num |-> 0, den |-> d]) = Null

\* A product with no stock left and a daily average of one seventh runs empty
\* in 0 days.
C10_Witness ==
  \E e \in ConsumptionEntries :
    /\ e.dailyAvg = [num |-> 1, den |-> 7]
    /\ e.product.quantity = 0
    /\ e.daysUntilEmpty = Some(0)

\* The exits of the filtered set that belong to a consumption entry.
ExitsOf(e) == SelectSeq(exits, LAMBDA m : m.productId = e.product.id)
ExitTimes(e) == {ExitsOf(e)[i].createdAt : i \in DOMAIN ExitsOf(e)}

\* C11: for 7d, 30d and 90d the active days are 7, 30 and 90; for "all" they
\* are the least whole number of days, at least 1, that covers the time from
\* the product's earliest to its latest exit in the filtered set; the daily
\* average is the total consumed divided by the active days and the monthly
\* projection is thirty times the daily average. One exit of 10 under "all"
\* gives 1 active day, a daily average of 10 and a projection of 300.
C11_ActiveDays ==
  \A e \in ConsumptionEntries :
    LET span == Max(ExitTimes(e)) - Min(ExitTimes(e))
        d == e.actualDays
    IN  /\ period # "all" => d = WindowDays(period)
        /\ period = "all" =>
             /\ d >= 1
             /\ d * TicksPerDay >= span
             /\ d > 1 => (d - 1) * TicksPerDay < span
        /\ e.dailyAvg.num * d = e.totalConsumed * e.dailyAvg.den
        /\ e.monthlyProjection.num * e.dailyAvg.den
             = 30 * e.dailyAvg.num * e.monthlyProjection.den
        /\ (period = "all" /\ e.movCount = 1 /\ e.totalConsumed = 10) =>
             /\ d = 1
             /\ e.dailyAvg.num = 10 * e.dailyAvg.den
             /\ e.monthlyProjection.num = 300 * e.monthlyProjection.den

\* Under "all", one product has a single exit of 10 and another entry spans
\* more than one day between its first and last exit.
C11_Witness ==
  /\ period = "all"
  /\ \E e \in ConsumptionEntries :
       \/ e.movCount = 1 /\ e.totalConsumed = 10 /\ e.actualDays = 1
       \/ e.movCount = 2 /\ e.actualDays = 2

\* C12: when the daily average is positive, daysUntilEmpty is the product's
\* current catalog quantity divided by the daily average, rounded to the
\* nearest integer with halves rounded up, and the cost projection is the
\* monthly projection times the price. A stock of 50 with exits 5+5+5 under
\* 30d gives a daily average of one half, 100 days, status ok and a cost
\* projection of 30.00 at price 2.00.
C12_DaysUntilEmptyRounded ==
  \A e \in ConsumptionEntries :
    LET q == FindProduct(products, e.product.id).quantity
        avg == e.dailyAvg
    IN  /\ avg.num > 0 =>
             /\ e.daysUntilEmpty # Null
             /\ (2 * e.daysUntilEmpty[1] - 1) * avg.num <= 2 * q * avg.den
             /\ 2 * q * avg.den < (2 * e.daysUntilEmpty[1] + 1) * avg.num
        /\ e.costProjection.num * e.monthlyProjection.den
             = e.monthlyProjection.num * e.product.price * e.costProjection.den
        /\ (period = "30d" /\ q = 50 /\ e.totalConsumed = 15
              /\ e.product.price = 200) =>
             /\ 2 * avg.num = avg.den
             /\ e.daysUntilEmpty = Some(100)
             /\ e.status = "ok"
             /\ e.costProjection.num = 3000 * e.costProjection.den

\* The stock of 50 with three exits of 5 is projected under 30d.
C12_Witness ==
  /\ period = "30d"
  /\ \E e \in ConsumptionEntries :
       /\ e.product.quantity = 50
       /\ e.movCount = 3
       /\ e.totalConsumed = 15
       /\ e.daysUntilEmpty = Some(100)

\* The ids of the catalog products with at least one exit in the filtered set.
ConsumedIds ==
  {products[i].id : i \in DOMAIN products} \cap
  {exits[i].productId : i \in DOMAIN exits}

\* C13: the products of the consumption entries are exactly the catalog
\* products with at least one exit in the filtered set, each exactly once.
C13_ConsumptionProducts ==
  /\ {consumptionData[i].product.id : i \in DOMAIN consumptionData} = ConsumedIds
  /\ Len(consumptionData) = Cardinality(ConsumedIds)
  /\ \A i \in DOMAIN consumptionData :
       consumptionData[i].product \in Range(products)

\* A catalog of two products, two exits of product 1 and nothing of product
\* 2: one entry; and a catalog product next to an exit of a deleted product.
C13_Witness ==
  /\ Len(products) = 2
  /\ Len(exits) = 2
  /\ Len(consumptionData) = 1
  /\ \/ exits[1].productId = exits[2].productId
     \/ \E i \in DOMAIN exits : ~HasProduct(products, exits[i].productId)

\* The position of the first movement of a product in a list.
FirstIndex(ms, id) == Min({k \in DOMAIN ms : ms[k].productId = id})

RankedBy(rows, ms) ==
  \A i \in DOMAIN rows, j \in DOMAIN rows :
    i < j =>
      /\ rows[i].qty >= rows[j].qty
      /\ rows[i].qty = rows[j].qty =>
           FirstIndex(ms, rows[i].product.id) < FirstIndex(ms, rows[j].product.id)

\* C14: each ranking is in non-increasing order of summed quantity, and rows
\* of equal quantity stand in the order in which their products first occur
\* in the filtered entries, respectively exits.
C14_RankingSortedStable ==
  /\ RankedBy(topEntryByProduct, entries)
  /\ RankedBy(topExitByProduct, exits)

\* Two products with equal exit totals: product 2, whose exit comes first in
\* the list, is ranked before product 1.
C14_Witness ==
  /\ Len(topExitByProduct) = 2
  /\ topExitByProduct[1].qty = topExitByProduct[2].qty
  /\ topExitByProduct[1].product.id = 2
  /\ topExitByProduct[2].product.id = 1

RankedIds(rows) == {rows[i].product.id : i \in DOMAIN rows}

\* C15 (as stated): every catalog product with at least one entry (exit) in
\* the filtered set has a row in the entry (exit) ranking.
C15_FullRanking ==
  /\ RankedIds(topEntryByProduct) = KnownKeys(entries)
  /\ RankedIds(topExitByProduct) = KnownKeys(exits)

FirstTopN(rows, ms) ==
  /\ Len(rows) = IF Cardinality(KnownKeys(ms)) < TopN
                   THEN Cardinality(KnownKeys(ms)) ELSE TopN
  /\ Cardinality(RankedIds(rows)) = Len(rows)
  /\ RankedIds(rows) \subseteq KnownKeys(ms)
  /\ \A i \in DOMAIN rows :
       rows[i].qty = SumSeq(MapQty(SelectSeq(ms,
                        LAMBDA m : m.productId = rows[i].product.id)))
  /\ \A id \in KnownKeys(ms) \ RankedIds(rows) :
       \A i \in DOMAIN rows :
         SumSeq(MapQty(SelectSeq(ms, LAMBDA m : m.productId = id))) <= rows[i].qty

\* C15 (amended): each ranking holds one row per catalog product with
\* movements of its type in the filtered set, up to TopN rows; a product left
\* out has a summed quantity no greater than that of any row kept.
C15_FirstTopNOfRanking ==
  /\ FirstTopN(topEntryByProduct, entries)
  /\ FirstTopN(topExitByProduct, exits)

\* More than TopN catalog products have entries of different quantities and
\* the ranking holds TopN rows.
C15_Witness ==
  /\ Cardinality(KnownKeys(entries)) > TopN
  /\ Len(topEntryByProduct) = TopN
  /\ topEntryByProduct[1].qty > topEntryByProduct[TopN].qty

InPeriod == filterByPeriod(movements, period, clock)
Selected(ms) == SelectSeq(ms, LAMBDA m : m.productId \in selectedProductIds)
OfType(ms, type) == SelectSeq(ms, LAMBDA m : m.type = type)

\* C16: with products selected, the movements behind the totals, the counts,
\* the rankings and the consumption entries are the movements of the period
\* whose product is selected; with no product selected they are all the
\* movements of the period.
C16_ProductFilter ==
  /\ selectedProductIds = {} => filtered = InPeriod
  /\ selectedProductIds # {} =>
       /\ filtered = Selected(InPeriod)
       /\ entries = Selected(OfType(InPeriod, "entry"))
       /\ exits = Selected(OfType(InPeriod, "exit"))
       /\ totalEntryQty = SumSeq(MapQty(Selected(OfType(InPeriod, "entry"))))
       /\ totalExitQty = SumSeq(MapQty(Selected(OfType(InPeriod, "exit"))))
       /\ RankedIds(topEntryByProduct) \subseteq selectedProductIds
       /\ RankedIds(topExitByProduct) \subseteq selectedProductIds
       /\ RankedIds(consumptionData) \subseteq selectedProductIds

\* Product 2 alone is selected while the period also holds a movement of
\* product 1, which no longer reaches the report.
C16_Witness ==
  /\ selectedProductIds = {2}
  /\ Len(InPeriod) = 2
  /\ Len(filtered) = 1
  /\ \E i \in DOMAIN InPeriod : InPeriod[i].productId = 1

\* C17: a step that leaves the loaded products and categories alone, such as
\* a change of period, of the selected products or of the tab, leaves the
\* category breakdown alone.
C17_BreakdownFrame ==
  [][(products' = products /\ categories' = categories)
       => categoryBreakdown' = categoryBreakdown]_vars

\* The period and the product filter have been changed, the filtered set is
\* not the whole movement list, and the breakdown has a row.
C17_Witness ==
  /\ period # "30d"
  /\ selectedProductIds # {}
  /\ filtered # movements
  /\ categoryBreakdown # <<>>

RECURSIVE SumFn(_, _)
SumFn(f, S) ==
  IF S = {} THEN 0
  ELSE LET i == CHOOSE i \in S : TRUE IN f[i] + SumFn(f, S \ {i})

ProductsIn(cat) == {i \in DOMAIN products : products[i].categoryId = cat.id}
StockedCategories == {c \in Range(categories) : ProductsIn(c) # {}}

\* C18: the breakdown has exactly one row for each category with at least
\* one catalog product, holding the number of those products, the sum of
\* their quantities and the sum of quantity times price; a category without
\* catalog products has no row, whatever the movement list holds.
C18_BreakdownRows ==
  /\ Len(categoryBreakdown) = Cardinality(StockedCategories)
  /\ {categoryBreakdown[i].category : i \in DOMAIN categoryBreakdown} = StockedCategories
  /\ \A i \in DOMAIN categoryBreakdown :
       LET row == categoryBreakdown[i]
           mine == ProductsIn(row.category)
       IN  /\ row.productCount = Cardinality(mine)
           /\ row.totalQty = SumFn([k \in DOMAIN products |-> products[k].quantity], mine)
           /\ row.totalVal = SumFn([k \in DOMAIN products |->
                                      products[k].quantity * products[k].price], mine)

\* Category 2 has no product left, the movement list still holds a movement
\* of a deleted product, and the breakdown has the one row of category 1.
C18_Witness ==
  /\ Len(categories) = 2
  /\ Len(products) = 1
  /\ \E i \in DOMAIN movements : ~HasProduct(products, movements[i].productId)
  /\ Len(categoryBreakdown) = 1
  /\ categoryBreakdown[1].category.id = 1

OrphanIds(ms) ==
  {ms[i].productId : i \in DOMAIN ms} \ {products[i].id : i \in DOMAIN products}

ListsAll(rows, ms) ==
  /\ Len(rows) = Len(ms)
  /\ \A i \in DOMAIN ms :
       /\ rows[i].movement = ms[i]
       /\ rows[i].removed <=> ~HasProduct(products, ms[i].productId)
       /\ rows[i].removed => rows[i].product = Null /\ rows[i].value = Null

\* C19: a movement of a product missing from the catalog has no ranking row
\* and no consumption entry and adds nothing to the ranking sums, while it is
\* counted among the entries, respectively exits, and listed, marked as
\* removed.
C19_OrphanMovements ==
  /\ RankedIds(topEntryByProduct) \cap OrphanIds(entries) = {}
  /\ RankedIds(topExitByProduct) \cap OrphanIds(exits) = {}
  /\ RankedIds(consumptionData) \cap OrphanIds(exits) = {}
  /\ RankQty(topEntryByProduct) <= SumSeq(MapQty(KnownOnly(entries)))
  /\ RankQty(topExitByProduct) <= SumSeq(MapQty(KnownOnly(exits)))
  /\ Len(entries) = Cardinality({i \in DOMAIN filtered : filtered[i].type = "entry"})
  /\ Len(exits) = Cardinality({i \in DOMAIN filtered : filtered[i].type = "exit"})
  /\ ListsAll(entryRows, entries)
  /\ ListsAll(exitRows, exits)

\* The only exit of the period belongs to a deleted product: it is counted
\* and listed as removed, and the ranking and the consumption list are empty.
C19_Witness ==
  /\ products # <<>>
  /\ Len(exits) = 1
  /\ OrphanIds(exits) # {}
  /\ Len(exitRows) = 1
  /\ exitRows[1].removed
  /\ topExitByProduct = <<>>
  /\ consumptionData = <<>>

\* C20 (as stated): with no products or no categories, the rankings, the
\* consumption entries and the category breakdown are empty and the totals,
\* the values and the average price are zero.
C20_EmptyMeansZero ==
  (products = <<>> \/ categories = <<>>) =>
    /\ topEntryByProduct = <<>>
    /\ topExitByProduct = <<>>
    /\ consumptionData = <<>>
    /\ categoryBreakdown = <<>>
    /\ totalEntryQty = 0
    /\ totalExitQty = 0
    /\ entryValue = 0
    /\ exitValue = 0
    /\ avgPrice.num = 0

\* C20 (amended): with no products, the rankings, the consumption entries
\* and the category breakdown are empty and the values and the average price
\* are zero, while the total quantities still add up every filtered
\* movement; with no categories, the category breakdown is empty and the
\* consumption entries have no category, the rest being computed as usual.
C20_EmptyCatalog ==
  /\ products = <<>> =>
       /\ topEntryByProduct = <<>>
       /\ topExitByProduct = <<>>
       /\ consumptionData = <<>>
       /\ categoryBreakdown = <<>>
       /\ entryValue = 0
       /\ exitValue = 0
       /\ avgPrice.num = 0
       /\ totalEntryQty = SumSeq(MapQty(OfType(filtered, "entry")))
       /\ totalExitQty = SumSeq(MapQty(OfType(filtered, "exit")))
  /\ categories = <<>> =>
       /\ categoryBreakdown = <<>>
       /\ \A e \in ConsumptionEntries : e.category = Null
       /\ RankedIds(topEntryByProduct) = KnownKeys(entries)
       /\ RankedIds(topExitByProduct) = KnownKeys(exits)
       /\ RankedIds(consumptionData) = KnownKeys(exits)

\* The catalog is empty and the period holds exits: the ranking is empty and
\* the total exit quantity is not zero.
C20_Witness ==
  /\ products = <<>>
  /\ Len(exits) > 0
  /\ totalExitQty > 0
  /\ exitValue = 0
  /\ topExitByProduct = <<>>

UnknownPeriods == {"1y", ""}
UnknownTabs == {"summary", ""}

\* C21 (as stated): a period that is none of 7d, 30d, 90d, all and a kind
\* that is none of entries, exits, general, consumption are rejected.
C21_UnknownRejected ==
  /\ \A per \in UnknownPeriods : filterByPeriodCall(movements, per, clock).threw
  /\ \A t \in UnknownTabs : renderContent(t).threw

\* C21 (amended): the screen only ever holds one of the four periods and one
\* of the four tabs, and nothing is checked when the report is computed: a
\* period that is none of the four is filtered with the ninety-day window and
\* a tab that is none of the four draws the consumption report.
C21_UnknownFallsThrough ==
  /\ period \in Period
  /\ tab \in ReportTab
  /\ renderContent(tab) = [threw |-> FALSE, report |-> tab]
  /\ \A per \in UnknownPeriods :
       filterByPeriodCall(movements, per, clock)
         = [threw |-> FALSE, value |-> NotOlderThan(movements, "90d", clock)]
  /\ \A t \in UnknownTabs :
       renderContent(t) = [threw |-> FALSE, report |-> "consumption"]

\* Of two loaded movements, one lies between the thirty-day and the
\* ninety-day cutoff and is kept for an unknown period.
C21_Witness ==
  /\ Len(movements) = 2
  /\ Len(filterByPeriod(movements, "30d", clock)) = 1
  /\ Len(filterByPeriod(movements, "1y", clock)) = 2

C23_InputsNotMutated ==
  \/ /\ movements = <<>>
     /\ products = <<>>
     /\ categories = <<>>
  \/ /\ movements = SortMovements(store.movements)
     /\ products = store.products
     /\ categories = store.categories

\* After a change of period and of the product filter the consumption report
\* is drawn from a filtered set that is a proper part of the loaded list.
C23_Witness ==
  /\ tab = "consumption"
  /\ period = "7d"
  /\ selectedProductIds # {}
  /\ Len(movements) = 2
  /\ Len(filtered) = 1
  /\ consumptionData # <<>>

\* C24: every stored movement has quantity > 0, whichever path recorded it.
C24_MovementQuantityPositive ==
  \A i \in DOMAIN store.movements : store.movements[i].quantity > 0

\* C25: the stored quantity of every product is >= 0 after any sequence of
\* recorded entry and exit movements of any quantities.
C25_QuantityNonNegative ==
  \A i \in DOMAIN store.products : store.products[i].quantity >= 0

StoredQty(pid, type) ==
  SumSeq(MapQty(SelectSeq(store.movements,
                          LAMBDA m : m.productId = pid /\ m.type = type)))

\* C26: with no operation in flight, the quantity of a product recorded only
\* through the add-movement screen is its initial quantity plus its stored
\* entries minus its stored exits.
C26_StockLedger ==
  Quiescent =>
    \A i \in DOMAIN store.products :
      store.products[i].quantity =
        InitialStock + StoredQty(store.products[i].id, "entry")
                     - StoredQty(store.products[i].id, "exit")

\* The integer a text denotes, when the whole text is an integer numeral.
IntegerOf(text) ==
  IF text # <<>> /\ \A i \in DOMAIN text : text[i] \in Digits
    THEN Some(DigitsValue(text, 1, 0))
    ELSE Null

\* The inputs the add-movement screen is to reject.
InvalidInput(in) ==
  \/ in.selectedProduct = NoProduct
  \/ IntegerOf(in.quantity) = Null
  \/ IntegerOf(in.quantity)[1] <= 0
  \/ /\ in.type = "exit"
     /\ in.available # Null
     /\ IntegerOf(in.quantity)[1] > in.available[1]

\* C27: the add-movement screen went on to addMovement with no input that
\* has no product selected, a quantity that is not a positive integer, or an
\* exit quantity above the loaded available quantity.
C27_InvalidSaveRejected ==
  \A c \in Clients :
    form[c].last # <<>> /\ InvalidInput(form[c].last[1]) => ~form[c].last[1].saved

\* C28: with no storage operation in flight, the product of every stored
\* movement is a stored product.
C28_NoOrphanMovement ==
  Quiescent =>
    \A i \in DOMAIN store.movements :
      HasProduct(store.products, store.movements[i].productId)

\* C29: every stored product's categoryId is the id of a stored category,
\* whatever the categories screen and the product form have done.
C29_CategoryOfEveryProduct ==
  Quiescent =>
    \A i \in DOMAIN store.products :
      \E j \in DOMAIN store.categories :
        store.categories[j].id = store.products[i].categoryId

\* C30: once importAllData(data) has completed, the stored categories,
\* products and movements are those of the backup (the counts announced in
\* the confirmation, nothing of the data held before) and every product's
\* categoryId refers to a stored category.
C30_ImportReplaces ==
  \A c \in Clients :
    ops[c].pc = "idle" /\ form[c].imported # <<>> /\ form[c].alert = "" =>
      LET data == form[c].imported[1]
      IN  /\ Len(store.categories) = Len(data.categories)
          /\ Len(store.products) = Len(data.products)
          /\ store.movements = data.movements
          /\ \A i \in DOMAIN store.products :
               \E j \in DOMAIN store.categories :
                 store.categories[j].id = store.products[i].categoryId

====
